---- MODULE Spec2Model ----
(***************************************************************************)
(* NFA simulation of lab1/python/nfa.py: Rule.match, NFA.exec (explicit-   *)
(* stack depth-first search with an epsilon visited set) and NFA.backtrace *)
(* (path reconstruction from the step trace).                              *)
(*                                                                         *)
(* Characters are code points (naturals); a string is a sequence of code   *)
(* points; the empty string is <<>>.  A Python list is a sequence whose    *)
(* element k (0-based) is at index k+1.                                    *)
(***************************************************************************)
EXTENDS Integers, Sequences, FiniteSets, TLC

VARIABLES nfa,      \* the automaton: [num_states, is_final, rules]
          text,     \* text[i]: the input string of invocation i
          stack,    \* stack[i]: exec's local stack of frames <<q, remaining_str, step>>
          path,     \* path[i]: exec's local trace, step -> <<q, remaining_str>>
          visited,  \* visited[i]: exec's local set of <<dst, remaining_str>>
          pc,       \* pc[i]: where invocation i is
          result,   \* result[i]: what invocation i returned
          m_rule,   \* Rule.match: the rule it is called on
          m_c,      \* Rule.match: the character
          m_out     \* Rule.match: "pending", "True", "False" or "ValueError"

vars == <<nfa, text, stack, path, visited, pc, result, m_rule, m_c, m_out>>

---------------------------------------------------------------------------
(* Bounds of the model. *)

NumStates == 3      \* states of the automata explored
MaxRules == 3       \* rules of one automaton, all states together
MaxLen == 2         \* length of the input strings
MaxConcRules == 2   \* rules of an automaton shared by two invocations
MaxTermRules == 2   \* rules of an automaton in the search run to its end under fairness
MaxTraceSteps == 3  \* steps of a trace handed to backtrace on its own
MaxBadRules == 2    \* rules of an automaton built from a malformed description
MaxConcLen == 1     \* length of the inputs of two concurrent invocations

Procs == {1, 2}

---------------------------------------------------------------------------
(* Characters. *)

Ord(name) ==
    CASE name = "TAB" -> 9   [] name = "LF" -> 10  [] name = "CR" -> 13
      [] name = "FS" -> 28   [] name = "SPACE" -> 32 [] name = "-" -> 45
      [] name = "." -> 46    [] name = "0" -> 48   [] name = "5" -> 53
      [] name = "9" -> 57    [] name = "A" -> 65   [] name = "D" -> 68
      [] name = "S" -> 83    [] name = "W" -> 87   [] name = "_" -> 95
      [] name = "a" -> 97    [] name = "b" -> 98   [] name = "d" -> 100
      [] name = "m" -> 109   [] name = "s" -> 115  [] name = "w" -> 119
      [] name = "x" -> 120   [] name = "z" -> 122  [] name = "SUP2" -> 178
      [] name = "EACUTE" -> 233 [] name = "ARABIC5" -> 1637

\* str.isdigit(): the characters of Unicode property Numeric_Type Digit or
\* Decimal; in ASCII exactly 0..9, and beyond ASCII among others the
\* superscript digits and the Arabic-Indic digits.
IsDigit(c) == c \in 48..57 \/ c \in {178, 179, 185} \/ c \in 1632..1641

\* str.isalnum(): isalpha() or isdecimal() or isdigit() or isnumeric().
IsAlnum(c) ==
    \/ c \in 48..57 \/ c \in 65..90 \/ c \in 97..122
    \/ IsDigit(c)
    \/ c \in {170, 181, 186} \/ (c \in 192..255 /\ c \notin {215, 247})

\* str.isspace(): Unicode whitespace (bidirectional type WS, B or S).
IsSpace(c) == c \in 9..13 \/ c \in 28..32 \/ c \in {133, 160}

---------------------------------------------------------------------------
(* Rule and Rule.match. *)

EPSILON == "EPSILON"
NORMAL == "NORMAL"
RANGE == "RANGE"
SPECIAL == "SPECIAL"

\* `by` and `to` are one character, or 0 where the code holds the empty string.
MkRule(dst, type, by, to) == [dst |-> dst, type |-> type, by |-> by, to |-> to]

KnownTags == {Ord("d"), Ord("w"), Ord("s"), Ord("D"), Ord("W"), Ord("S"), Ord(".")}

\* The calls of match that raise ValueError.
MatchRaises(rule) ==
    \/ rule.type = SPECIAL /\ rule.by \notin KnownTags
    \/ rule.type = EPSILON
    \/ rule.type \notin {NORMAL, RANGE, SPECIAL, EPSILON}

\* The class W negated with the connective kept: not alphanumeric or not underscore.
MatchSpecialBadW(by, c) ==
    CASE by = Ord("d") -> IsDigit(c)
      [] by = Ord("w") -> IsAlnum(c) \/ c = Ord("_")
      [] by = Ord("s") -> IsSpace(c)
      [] by = Ord("D") -> ~IsDigit(c)
      [] by = Ord("W") -> ~IsAlnum(c) \/ c # Ord("_")
      [] by = Ord("S") -> ~IsSpace(c)
      [] by = Ord(".") -> c # Ord("LF") /\ c # Ord("CR")

MatchSpecial(by, c) ==
    CASE by = Ord("d") -> IsDigit(c)
      [] by = Ord("w") -> IsAlnum(c) \/ c = Ord("_")
      [] by = Ord("s") -> IsSpace(c)
      [] by = Ord("D") -> ~IsDigit(c)
      [] by = Ord("W") -> ~IsAlnum(c) /\ c # Ord("_")
      [] by = Ord("S") -> ~IsSpace(c)
      [] by = Ord(".") -> c # Ord("LF") /\ c # Ord("CR")

\* The value match returns where it does not raise.
Match(rule, c) ==
    CASE rule.type = NORMAL -> rule.by = c
      [] rule.type = RANGE -> rule.by <= c /\ c <= rule.to
      [] rule.type = SPECIAL -> MatchSpecial(rule.by, c)

---------------------------------------------------------------------------
(* Python list indexing: list[q] for a list of length n. *)

IndexRaises(n, q) == q >= n \/ q < -n

ListGet(list, q) == IF q < 0 THEN list[Len(list) + q + 1] ELSE list[q + 1]

---------------------------------------------------------------------------
(* NFA.exec: one pass of the loop body's rule expansion, lines 154-161. *)

\* A visited set consulted by destination state alone, whatever the remaining input.
InVisitedByState(vis, next_state) == \E v \in vis : v[1] = next_state[1]

\* A visited set never consulted.
InVisitedNever(vis, next_state) == FALSE

\* `next_state not in visited`, negated.
InVisited(vis, next_state) == next_state \in vis

\* The visited test and marking applied to every push, consuming ones included.
RECURSIVE ExpandFromMarkAll(_, _, _, _, _, _)
ExpandFromMarkAll(rs, k, remaining_str, step, stk, vis) ==
    IF k = 0 THEN [stack |-> stk, visited |-> vis, raised |-> FALSE]
    ELSE LET rule == rs[k]
             rest == IF rule.type = EPSILON THEN remaining_str ELSE Tail(remaining_str)
             next_state == <<rule.dst, rest>>
         IN  IF rule.type # EPSILON /\ remaining_str = <<>>
             THEN ExpandFromMarkAll(rs, k - 1, remaining_str, step, stk, vis)
             ELSE IF rule.type # EPSILON /\ MatchRaises(rule)
             THEN [stack |-> stk, visited |-> vis, raised |-> TRUE]
             ELSE IF rule.type # EPSILON /\ ~Match(rule, Head(remaining_str))
             THEN ExpandFromMarkAll(rs, k - 1, remaining_str, step, stk, vis)
             ELSE IF next_state \in vis
             THEN ExpandFromMarkAll(rs, k - 1, remaining_str, step, stk, vis)
             ELSE ExpandFromMarkAll(rs, k - 1, remaining_str, step,
                                    Append(stk, <<rule.dst, rest, step + 1>>),
                                    vis \cup {next_state})

\* The rules rs[1..k] still to handle, last first (reversed(self.rules[q])).
\* Gives the stack and visited set after them, and whether match raised.
RECURSIVE ExpandFrom(_, _, _, _, _, _)
ExpandFrom(rs, k, remaining_str, step, stk, vis) ==
    IF k = 0 THEN [stack |-> stk, visited |-> vis, raised |-> FALSE]
    ELSE LET rule == rs[k]
             next_state == <<rule.dst, remaining_str>>
         IN  IF rule.type = EPSILON
             THEN IF ~InVisited(vis, next_state)
                  THEN ExpandFrom(rs, k - 1, remaining_str, step,
                                  Append(stk, <<rule.dst, remaining_str, step + 1>>),
                                  vis \cup {next_state})
                  ELSE ExpandFrom(rs, k - 1, remaining_str, step, stk, vis)
             ELSE IF remaining_str = <<>>
                  THEN ExpandFrom(rs, k - 1, remaining_str, step, stk, vis)
                  ELSE IF MatchRaises(rule)
                       THEN [stack |-> stk, visited |-> vis, raised |-> TRUE]
                       ELSE IF Match(rule, Head(remaining_str))
                            THEN ExpandFrom(rs, k - 1, remaining_str, step,
                                            Append(stk, <<rule.dst, Tail(remaining_str), step + 1>>),
                                            vis)
                            ELSE ExpandFrom(rs, k - 1, remaining_str, step, stk, vis)

\* The rules handled first to last instead of last to first.
ExpandForward(q, remaining_str, step, stk, vis) ==
    LET rs == ListGet(nfa.rules, q)
        forward == [k \in 1..Len(rs) |-> rs[Len(rs) + 1 - k]]
    IN  ExpandFrom(forward, Len(forward), remaining_str, step, stk, vis)

Expand(q, remaining_str, step, stk, vis) ==
    ExpandFrom(ListGet(nfa.rules, q), Len(ListGet(nfa.rules, q)),
               remaining_str, step, stk, vis)

\* The trace written as by path.setdefault: an entry once recorded at a
\* step is never overwritten.
RecordKeepFirst(p, step, q, remaining_str) ==
    [k \in DOMAIN p \cup {step} |->
        IF k \in DOMAIN p THEN p[k] ELSE <<q, remaining_str>>]

\* path[step] = (q, remaining_str)
Record(p, step, q, remaining_str) ==
    [k \in DOMAIN p \cup {step} |->
        IF k = step THEN <<q, remaining_str>> ELSE p[k]]

\* The loop body with the error of match swallowed: the search goes on with
\* what the expansion had pushed before it.
LoopBodySwallow(stk, p, vis) ==
    LET top == stk[Len(stk)]
        popped == SubSeq(stk, 1, Len(stk) - 1)
        p1 == Record(p, top[3], top[1], top[2])
    IN  IF IndexRaises(nfa.num_states, top[1])
        THEN [stack |-> popped, path |-> p1, visited |-> vis, pc |-> "error"]
        ELSE IF ListGet(nfa.is_final, top[1]) /\ top[2] = <<>>
        THEN [stack |-> popped, path |-> p1, visited |-> vis, pc |-> "backtrace"]
        ELSE LET e == Expand(top[1], top[2], top[3], popped, vis)
             IN  [stack |-> e.stack, path |-> p1, visited |-> e.visited, pc |-> "loop"]

\* One iteration of the while loop, lines 148-161, as a function of exec's
\* locals: the locals after it and where control goes.
LoopBody(stk, p, vis) ==
    LET top == stk[Len(stk)]
        q == top[1]
        remaining_str == top[2]
        step == top[3]
        popped == SubSeq(stk, 1, Len(stk) - 1)
        p1 == Record(p, step, q, remaining_str)
    IN  IF IndexRaises(nfa.num_states, q)
        THEN [stack |-> popped, path |-> p1, visited |-> vis, pc |-> "error"]
        ELSE IF ListGet(nfa.is_final, q) /\ remaining_str = <<>>
        THEN [stack |-> popped, path |-> p1, visited |-> vis, pc |-> "backtrace"]
        ELSE LET e == Expand(q, remaining_str, step, popped, vis)
             IN  [stack |-> e.stack, path |-> p1, visited |-> e.visited,
                  pc |-> IF e.raised THEN "error" ELSE "loop"]

---------------------------------------------------------------------------
(* NFA.backtrace, lines 118-132. *)

MaxKey(p) == CHOOSE k \in DOMAIN p : \A j \in DOMAIN p : j <= k

\* The consumed symbol taken from the remaining input without the epsilon test.
ConsumedNoEpsilon(p, i) ==
    IF p[i - 1][2] = <<>> THEN <<>> ELSE <<Head(p[i - 1][2])>>

\* consumes.append(...) of iteration i, lines 124-127.
Consumed(p, i) ==
    IF p[i][2] = p[i - 1][2] THEN <<>> ELSE <<Head(p[i - 1][2])>>

\* path[i - 1][1][0] on an empty string: IndexError.
BacktraceRaises(p) ==
    \E i \in 1..MaxKey(p) : p[i][2] # p[i - 1][2] /\ p[i - 1][2] = <<>>

\* The lists built by the loop `for i in range(step, 0, -1)`, from i down to 1.
RECURSIVE StatesFrom(_, _)
StatesFrom(p, i) == IF i = 0 THEN <<>> ELSE <<p[i][1]>> \o StatesFrom(p, i - 1)

RECURSIVE ConsumesFrom(_, _)
ConsumesFrom(p, i) ==
    IF i = 0 THEN <<>> ELSE <<Consumed(p, i)>> \o ConsumesFrom(p, i - 1)

\* list[::-1]
Reverse(list) == [k \in 1..Len(list) |-> list[Len(list) + 1 - k]]

\* The states without the trailing states.append(0).
BacktraceStatesNoStart(p) == Reverse(StatesFrom(p, MaxKey(p)))

BacktraceStates(p) == Reverse(Append(StatesFrom(p, MaxKey(p)), 0))

\* The consumes left in the order the loop built them, last step first.
BacktraceConsumesUnreversed(p) == ConsumesFrom(p, MaxKey(p))

BacktraceConsumes(p) == Reverse(ConsumesFrom(p, MaxKey(p)))

---------------------------------------------------------------------------
(* What exec gives back. *)

NoneResult == [kind |-> "None", states |-> <<>>, consumes |-> <<>>]

Raised == [kind |-> "raised", states |-> <<>>, consumes |-> <<>>]

PathResult(states, consumes) ==
    [kind |-> "Path", states |-> states, consumes |-> consumes]

NoResult == [kind |-> "pending", states |-> <<>>, consumes |-> <<>>]

\* Path.__str__ raises AssertionError: line 95.
StrRaises(r) == Len(r.consumes) # Len(r.states) - 1

\* exec run on its own from the locals (stk, p, vis) to its end.
RECURSIVE RunAlone(_, _, _)
RunAlone(stk, p, vis) ==
    IF stk = <<>> THEN NoneResult
    ELSE LET b == LoopBody(stk, p, vis)
         IN  CASE b.pc = "error" -> Raised
               [] b.pc = "backtrace" ->
                    IF BacktraceRaises(b.path) THEN Raised
                    ELSE PathResult(BacktraceStates(b.path), BacktraceConsumes(b.path))
               [] OTHER -> RunAlone(b.stack, b.path, b.visited)

\* exec(t) as a function of the automaton and the input.
ExecAlone(t) == RunAlone(<<<<0, t, 0>>>>, <<>>, {})

---------------------------------------------------------------------------
(* The automata and inputs explored. *)

\* The kinds of rule a state may carry, as <<type, by, to>>: an epsilon rule,
\* the literal a, and the range a-b.
EpsilonShape == <<EPSILON, 0, 0>>
LiteralShape == <<NORMAL, Ord("a"), 0>>
RangeShape == <<RANGE, Ord("a"), Ord("b")>>
AllShapes == {EpsilonShape, LiteralShape, RangeShape}

\* The rules of the given shapes into the states of an n-state automaton.
ExecRules(n, shapes) ==
    {MkRule(d, sh[1], sh[2], sh[3]) : d \in 0..(n - 1), sh \in shapes}

\* The rule tables of k states holding at most `budget` rules in all.
RECURSIVE Tables(_, _, _, _)
Tables(n, k, budget, shapes) ==
    IF k = 0 THEN {<<>>}
    ELSE UNION {{<<rs>> \o t : rs \in [1..m -> ExecRules(n, shapes)],
                               t \in Tables(n, k - 1, budget - m, shapes)}
                : m \in 0..budget}

\* Well-formed automata: what from_text builds from a description whose
\* destinations are all states and whose rules all have a known type.
Automata(n, budget, shapes) ==
    {[num_states |-> n, is_final |-> f, rules |-> t] :
        f \in [1..n -> BOOLEAN], t \in Tables(n, n, budget, shapes)}

\* The strings over {a, b} of length at most n.
Inputs(n) == UNION {[1..m -> {Ord("a"), Ord("b")}] : m \in 0..n}

\* No frame of a search over the automata and inputs above gets this deep:
\* at most NumStates * (MaxLen + 1) epsilon steps and MaxLen consuming steps.
StepCap == NumStates * (MaxLen + 1) + MaxLen + 1

---------------------------------------------------------------------------
(* The state machine: invocations of exec on one automaton. *)

IdleLocals ==
    /\ text = [i \in Procs |-> <<>>]
    /\ stack = [i \in Procs |-> <<>>]
    /\ path = [i \in Procs |-> <<>>]
    /\ visited = [i \in Procs |-> {}]
    /\ pc = [i \in Procs |-> "idle"]
    /\ result = [i \in Procs |-> NoResult]

NoMatchCall ==
    /\ m_rule = MkRule(0, EPSILON, 0, 0)
    /\ m_c = 0
    /\ m_out = "unused"

Init ==
    /\ nfa \in Automata(NumStates, MaxRules, AllShapes)
    /\ IdleLocals
    /\ NoMatchCall

\* exec is called with input t: lines 142-144.
ExecStart(i, t) ==
    /\ pc[i] = "idle"
    /\ text' = [text EXCEPT ![i] = t]
    /\ stack' = [stack EXCEPT ![i] = <<<<0, t, 0>>>>]
    /\ path' = [path EXCEPT ![i] = <<>>]
    /\ visited' = [visited EXCEPT ![i] = {}]
    /\ pc' = [pc EXCEPT ![i] = "loop"]
    /\ UNCHANGED <<nfa, result, m_rule, m_c, m_out>>

\* A visited set kept on the NFA object, shared by its invocations.
VisitedShared(i) == UNION {visited[j] : j \in Procs}

\* A trace kept on the NFA object: an invocation finds the other's entries at
\* the steps it has not written itself.
TraceShared(i) ==
    [k \in UNION {DOMAIN path[j] : j \in Procs} |->
        IF k \in DOMAIN path[i] THEN path[i][k]
        ELSE path[CHOOSE j \in Procs : k \in DOMAIN path[j]][k]]

\* exec's visited set as invocation i sees it: a local of the call.
VisitedOf(i) == visited[i]

\* exec's trace as invocation i sees it: a local of the call.
TraceOf(i) == path[i]

\* One iteration of `while stack:`, lines 147-161.  The third conjunct keeps
\* the state space finite should a search ever descend without end; no search
\* of the code comes near it.
Iterate(i) ==
    /\ pc[i] = "loop"
    /\ stack[i] # <<>>
    /\ stack[i][Len(stack[i])][3] <= StepCap
    /\ LET b == LoopBody(stack[i], TraceOf(i), VisitedOf(i))
       IN  /\ stack' = [stack EXCEPT ![i] = b.stack]
           /\ path' = [path EXCEPT ![i] = b.path]
           /\ visited' = [visited EXCEPT ![i] = b.visited]
           /\ pc' = [pc EXCEPT ![i] = b.pc]
           /\ result' = [result EXCEPT ![i] = IF b.pc = "error" THEN Raised ELSE @]
    /\ UNCHANGED <<nfa, text, m_rule, m_c, m_out>>

\* The loop ends with the stack empty: line 163.
ReturnNone(i) ==
    /\ pc[i] = "loop"
    /\ stack[i] = <<>>
    /\ pc' = [pc EXCEPT ![i] = "done"]
    /\ result' = [result EXCEPT ![i] = NoneResult]
    /\ UNCHANGED <<nfa, text, stack, path, visited, m_rule, m_c, m_out>>

\* return self.backtrace(path): line 152 and lines 118-132.
Backtrace(i) ==
    /\ pc[i] = "backtrace"
    /\ IF BacktraceRaises(TraceOf(i))
       THEN /\ pc' = [pc EXCEPT ![i] = "error"]
            /\ result' = [result EXCEPT ![i] = Raised]
       ELSE /\ pc' = [pc EXCEPT ![i] = "done"]
            /\ result' = [result EXCEPT ![i] =
                   PathResult(BacktraceStates(TraceOf(i)), BacktraceConsumes(TraceOf(i)))]
    /\ UNCHANGED <<nfa, text, stack, path, visited, m_rule, m_c, m_out>>

Next ==
    \/ \E t \in Inputs(MaxLen) : ExecStart(1, t)
    \/ Iterate(1)
    \/ ReturnNone(1)
    \/ Backtrace(1)

Spec == Init /\ [][Next]_vars

---------------------------------------------------------------------------
(* One invocation on automata of epsilon and literal rules, run to its end. *)

InitTerm ==
    /\ nfa \in Automata(NumStates, MaxTermRules, AllShapes)
    /\ IdleLocals
    /\ NoMatchCall

\* exec is a plain sequential loop: a call that can take a step takes it.
FairSpec == InitTerm /\ [][Next]_vars /\ WF_vars(Next)

---------------------------------------------------------------------------
(* Two invocations on the same automaton, their steps interleaved. *)

InitConc ==
    /\ nfa \in Automata(NumStates, MaxConcRules, AllShapes)
    /\ IdleLocals
    /\ NoMatchCall

NextConc ==
    \E i \in Procs :
        \/ \E t \in Inputs(MaxConcLen) : ExecStart(i, t)
        \/ Iterate(i)
        \/ ReturnNone(i)
        \/ Backtrace(i)

SpecConc == InitConc /\ [][NextConc]_vars

---------------------------------------------------------------------------
(* Rule.match called on one rule and one character. *)

MatchChars ==
    {Ord("TAB"), Ord("LF"), Ord("CR"), Ord("FS"), Ord("SPACE"), Ord("-"),
     Ord("0"), Ord("5"), Ord("9"), Ord("A"), Ord("_"), Ord("a"), Ord("m"),
     Ord("z"), Ord("SUP2"), Ord("EACUTE"), Ord("ARABIC5")}

MatchRules ==
    {MkRule(0, NORMAL, by, 0) : by \in MatchChars}
        \cup {MkRule(0, RANGE, by, to) : by \in MatchChars, to \in MatchChars}
        \cup {MkRule(0, SPECIAL, by, 0) : by \in KnownTags \cup {Ord("x")}}
        \cup {MkRule(0, EPSILON, 0, 0)}

InitMatch ==
    /\ nfa = [num_states |-> 1, is_final |-> <<FALSE>>, rules |-> <<<<>>>>]
    /\ IdleLocals
    /\ m_rule \in MatchRules
    /\ m_c \in MatchChars
    /\ m_out = "pending"

\* rule.match(c), lines 46-78.
CallMatch ==
    /\ m_out = "pending"
    /\ m_out' = IF MatchRaises(m_rule) THEN "ValueError"
                ELSE IF Match(m_rule, m_c) THEN "True" ELSE "False"
    /\ UNCHANGED <<nfa, text, stack, path, visited, pc, result, m_rule, m_c>>

NextMatch == CallMatch

MatchSpec == InitMatch /\ [][NextMatch]_vars

---------------------------------------------------------------------------
(* The runs of the automaton, defined without the search. *)

\* The configurations <<state, characters consumed>> one rule application
\* away from configuration c, on input t.
RuleSteps(c, t) ==
    LET rs == nfa.rules[c[1] + 1]
    IN  {<<rs[k].dst, c[2]>> : k \in {j \in DOMAIN rs : rs[j].type = EPSILON}}
            \cup {<<rs[k].dst, c[2] + 1>> :
                    k \in {j \in DOMAIN rs : /\ rs[j].type # EPSILON
                                             /\ c[2] < Len(t)
                                             /\ Match(rs[j], t[c[2] + 1])}}

\* The configurations reachable from those of S by rule applications.
RECURSIVE Reachable(_, _)
Reachable(S, t) ==
    LET more == S \cup UNION {RuleSteps(c, t) : c \in S}
    IN  IF more = S THEN S ELSE Reachable(more, t)

\* Some sequence of rule applications leads from (0, t) to (f, empty), f final.
AcceptingRunExists(t) ==
    \E c \in Reachable({<<0, 0>>}, t) : c[2] = Len(t) /\ nfa.is_final[c[1] + 1]

\* The concatenation of a list of strings.
RECURSIVE Concat(_)
Concat(list) == IF list = <<>> THEN <<>> ELSE Head(list) \o Concat(Tail(list))

Returned(i) == pc[i] = "done"

ReturnedPath(i) == pc[i] = "done" /\ result[i].kind = "Path"

EpsilonEdge(q, d) ==
    \E k \in DOMAIN nfa.rules[q + 1] :
        nfa.rules[q + 1][k].type = EPSILON /\ nfa.rules[q + 1][k].dst = d

---------------------------------------------------------------------------
(* Claims. *)

\* C1: exec returns None only when no accepting run exists: the epsilon
\* visited-set suppression never turns an acceptable input into a rejection.
C1_RejectOnlyWithoutRun ==
    (Returned(1) /\ result[1].kind = "None") => ~AcceptingRunExists(text[1])

\* A rejection of a non-empty input after the search went round an epsilon
\* self-loop, whose second visit the visited set suppressed.
C1_Witness ==
    /\ Returned(1) /\ result[1].kind = "None"
    /\ text[1] # <<>>
    /\ \E v \in visited[1] : EpsilonEdge(v[1], v[1])

\* C2: the last element of a returned Path's states is a final state.
C2_LastStateFinal ==
    ReturnedPath(1) =>
        nfa.is_final[result[1].states[Len(result[1].states)] + 1]

\* C3: the consumes of a returned Path, concatenated in order, are the input.
C3_ConsumesSpellInput ==
    ReturnedPath(1) => Concat(result[1].consumes) = text[1]

\* A returned Path of an input of two characters with an epsilon step in it.
C3_Witness ==
    /\ ReturnedPath(1)
    /\ Len(text[1]) = 2
    /\ \E k \in DOMAIN result[1].consumes : result[1].consumes[k] = <<>>

\* C4: a returned Path is a run of the automaton: states[i] has a rule to
\* states[i+1], an epsilon rule where consumes[i] is empty and otherwise a
\* non-epsilon rule matching the character consumes[i].
C4_PathIsRun ==
    ReturnedPath(1) =>
        \A k \in DOMAIN result[1].consumes :
            LET rs == nfa.rules[result[1].states[k] + 1]
                sym == result[1].consumes[k]
            IN  \E j \in DOMAIN rs :
                    /\ rs[j].dst = result[1].states[k + 1]
                    /\ IF sym = <<>> THEN rs[j].type = EPSILON
                       ELSE rs[j].type # EPSILON /\ Match(rs[j], sym[1])

\* C5: on a well-formed automaton exec never ends in an error: it returns a
\* Path or None, and backtrace never fails.
C5_NeverRaises == pc[1] # "error"

\* C6: a returned Path has states[0] = 0 and len(consumes) = len(states) - 1,
\* so Path.__str__ does not raise on it.
C6_PathShape ==
    ReturnedPath(1) =>
        /\ ~StrRaises(result[1])
        /\ result[1].states[1] = 0

\* A returned Path of at least two steps.
C6_Witness == ReturnedPath(1) /\ Len(result[1].states) >= 3

Ended(i) == pc[i] \in {"done", "error"}

\* C7: exec terminates on every automaton and input, epsilon self-loops and
\* epsilon cycles included: the stack empties or an accepting frame is popped.
C7_Terminates == <>Ended(1)

\* A finished search that went both ways round an epsilon cycle of two states.
C7_Witness ==
    /\ Ended(1)
    /\ \E v \in visited[1], w \in visited[1] :
        /\ v[1] # w[1] /\ v[2] = w[2]
        /\ EpsilonEdge(v[1], w[1]) /\ EpsilonEdge(w[1], v[1])

C9_Independent ==
    [][/\ nfa' = nfa
       /\ \A i \in Procs : Ended(i)' => result'[i] = ExecAlone(text'[i])]_vars

\* Invocation 1 has returned a Path while invocation 2, on another input, is
\* in the middle of its search, both with epsilon configurations visited.
C9_Witness ==
    /\ ReturnedPath(1)
    /\ pc[2] = "loop" /\ stack[2] # <<>> /\ DOMAIN path[2] # {}
    /\ text[1] # text[2]
    /\ visited[1] # {} /\ visited[2] # {}

\* The reference table of the character matcher.
TableMatch(rule, c) ==
    CASE rule.type = NORMAL -> c = rule.by
      [] rule.type = RANGE -> rule.by <= c /\ c <= rule.to
      [] rule.by = Ord("d") -> c \in Ord("0")..Ord("9")
      [] rule.by = Ord("w") -> IsAlnum(c) \/ c = Ord("_")
      [] rule.by = Ord("s") -> IsSpace(c)
      [] rule.by = Ord(".") -> c \notin {Ord("CR"), Ord("LF")}

InTable(rule) ==
    \/ rule.type \in {NORMAL, RANGE}
    \/ rule.type = SPECIAL /\ rule.by \in {Ord("d"), Ord("w"), Ord("s"), Ord(".")}

\* C10: for every non-epsilon rule and every character, match agrees with the
\* reference table: Literal iff c = matchChar, Range iff matchChar <= c <=
\* rangeEnd, d iff c is an ASCII decimal digit, w iff alphanumeric or
\* underscore, s iff whitespace, '.' iff neither carriage return nor line feed.
C10_MatchAgreesWithTable ==
    (m_out # "pending" /\ InTable(m_rule)) =>
        (m_out = "True") = TableMatch(m_rule, m_c)

\* The class tag of the opposite case: d and D, w and W, s and S.
OtherCase(by) ==
    CASE by = Ord("d") -> Ord("D") [] by = Ord("D") -> Ord("d")
      [] by = Ord("w") -> Ord("W") [] by = Ord("W") -> Ord("w")
      [] by = Ord("s") -> Ord("S") [] by = Ord("S") -> Ord("s")

PairedTags == {Ord("d"), Ord("D"), Ord("w"), Ord("W"), Ord("s"), Ord("S")}

\* C11: for every character, match gives exactly one true result in each of
\* the pairs (d, D), (w, W), (s, S): the upper-case class is the negation of
\* the lower-case class.
C11_ClassComplements ==
    (m_out # "pending" /\ m_rule.type = SPECIAL /\ m_rule.by \in PairedTags) =>
        /\ m_out \in {"True", "False"}
        /\ (m_out = "True") # Match(MkRule(0, SPECIAL, OtherCase(m_rule.by), 0), m_c)

\* match has answered True for the class W on a character that is neither
\* alphanumeric nor the underscore.
C11_Witness ==
    /\ m_out = "True" /\ m_rule.type = SPECIAL /\ m_rule.by = Ord("W")
    /\ m_c = Ord("-")

\* The frame the next iteration of invocation i pops.
TopFrame(i) == stack[i][Len(stack[i])]

\* Invocation i pops an accepting frame in this step and goes on to backtrace.
PopsAccepting(i) == pc[i] = "loop" /\ pc'[i] = "backtrace"

\* C12: when exec pops an accepting frame with step index N and hands the
\* trace to backtrace, the keys of the trace are exactly 0..N: no entry of a
\* branch explored earlier is left above N.
C12_TraceEndsAtAcceptingStep ==
    [][PopsAccepting(1) => DOMAIN path'[1] = 0..TopFrame(1)[3]]_vars

\* Rule rs[k] pushes a frame when its state is expanded with the given
\* remaining input and visited set: an epsilon rule whose configuration is not
\* visited and is not claimed by a later-declared epsilon rule of the same
\* expansion (handled before it), a non-epsilon rule that matches.
PushesFrame(rs, k, remaining_str, vis) ==
    IF rs[k].type = EPSILON
    THEN /\ <<rs[k].dst, remaining_str>> \notin vis
         /\ ~\E j \in DOMAIN rs : j > k /\ rs[j].type = EPSILON /\ rs[j].dst = rs[k].dst
    ELSE remaining_str # <<>> /\ Match(rs[k], Head(remaining_str))

\* The frame rule `rule` pushes.
FrameOf(rule, remaining_str, step) ==
    IF rule.type = EPSILON THEN <<rule.dst, remaining_str, step + 1>>
    ELSE <<rule.dst, Tail(remaining_str), step + 1>>

\* The frames of stack'[i] above what the pop left of stack[i].
PushedFrames(i) == SubSeq(stack'[i], Len(stack[i]), Len(stack'[i]))

\* The frames an expansion leaves on the stack lie in declaration order from
\* the top: the m-th frame from the bottom belongs to the m-th last-declared
\* pushing rule.
PushedInDeclarationOrder(i) ==
    LET top == TopFrame(i)
        rs == nfa.rules[top[1] + 1]
        pushing == {k \in DOMAIN rs : PushesFrame(rs, k, top[2], visited[i])}
        new == PushedFrames(i)
    IN  /\ Len(new) = Cardinality(pushing)
        /\ \A m \in 1..Len(new) :
               LET k == CHOOSE k \in pushing : Cardinality({j \in pushing : j > k}) = m - 1
               IN  new[m] = FrameOf(rs[k], top[2], top[3])

\* C13: exploration respects declaration order: of the frames one expansion
\* pushes, the frame of an earlier-declared rule, with all pushed on top of
\* it, is popped before the frame of a later-declared rule, and the first
\* accepting frame popped ends the search.
C13_DeclarationOrder ==
    [][/\ (pc[1] = "loop" /\ stack'[1] # stack[1]) =>
            /\ SubSeq(stack'[1], 1, Len(stack[1]) - 1) = SubSeq(stack[1], 1, Len(stack[1]) - 1)
            /\ pc'[1] = "loop" => PushedInDeclarationOrder(1)
            /\ pc'[1] = "backtrace" => Len(stack'[1]) = Len(stack[1]) - 1
       /\ pc[1] \in {"backtrace", "done", "error"} =>
            stack'[1] = stack[1] /\ pc'[1] # "loop"]_vars

\* Two different frames pushed by one expansion lie on top of the stack, the
\* one of the earlier-declared rule above the other.
C13_Witness ==
    /\ pc[1] = "loop" /\ Len(stack[1]) >= 2
    /\ LET a == stack[1][Len(stack[1])]
           b == stack[1][Len(stack[1]) - 1]
       IN  a[3] = b[3] /\ a[3] >= 1 /\ a # b

\* What the visited set does in one expansion by invocation i: it gains the
\* configurations of all epsilon rules of the expanded state, the epsilon
\* frames pushed are those configurations not visited before, each once, and
\* every matching non-epsilon rule pushes its frame whatever the set holds.
VisitedDiscipline(i) ==
    LET top == TopFrame(i)
        rs == nfa.rules[top[1] + 1]
        new == PushedFrames(i)
        epsTargets == {<<rs[k].dst, top[2]>> : k \in {j \in DOMAIN rs : rs[j].type = EPSILON}}
        epsNew == {m \in DOMAIN new : new[m][2] = top[2]}
        matching == {k \in DOMAIN rs : /\ rs[k].type # EPSILON
                                        /\ top[2] # <<>>
                                        /\ Match(rs[k], Head(top[2]))}
    IN  /\ visited'[i] = visited[i] \cup epsTargets
        /\ {<<new[m][1], new[m][2]>> : m \in epsNew} = epsTargets \ visited[i]
        /\ Cardinality(epsNew) = Cardinality(epsTargets \ visited[i])
        /\ Cardinality(DOMAIN new \ epsNew) = Cardinality(matching)

\* C14: each configuration is pushed through an epsilon rule at most once,
\* the visited set never holds more than numStates x (len(input) + 1)
\* configurations, and frames pushed through non-epsilon rules are neither
\* recorded in nor filtered by the visited set.
C14_VisitedSet ==
    [][/\ (pc[1] = "loop" /\ pc'[1] = "loop" /\ stack'[1] # stack[1]) => VisitedDiscipline(1)
       /\ (pc[1] = "loop" /\ pc'[1] # "loop") => visited'[1] = visited[1]
       /\ visited[1] \subseteq visited'[1]
       /\ Cardinality(visited'[1]) <= nfa.num_states * (Len(text'[1]) + 1)]_vars

\* Two frames of the same configuration lie on the stack while the visited
\* set holds that configuration: one of them came through a non-epsilon rule.
C14_Witness ==
    /\ pc[1] = "loop"
    /\ \E m \in DOMAIN stack[1], n \in DOMAIN stack[1] :
        /\ m < n
        /\ stack[1][m][1] = stack[1][n][1] /\ stack[1][m][2] = stack[1][n][2]
        /\ <<stack[1][m][1], stack[1][m][2]>> \in visited[1]

---------------------------------------------------------------------------
(* NFA.backtrace called on its own, on a well-formed trace. *)

\* t[1:] applied n times: t without its first n characters, empty once t is.
RECURSIVE Drop(_, _)
Drop(t, n) == IF n = 0 \/ t = <<>> THEN t ELSE Drop(Tail(t), n - 1)

\* The well-formed traces of n steps: keys 0..n, state 0 at step 0, and at
\* each further step the remaining input of the step before, whole or without
\* its first character.
Traces(n) ==
    {[k \in 0..n |->
        <<IF k = 0 THEN 0 ELSE qs[k],
          Drop(t, Cardinality({j \in 1..k : eats[j]}))>>] :
        qs \in [1..n -> 0..(NumStates - 1)],
        t \in Inputs(MaxLen),
        eats \in [1..n -> BOOLEAN]}

WellFormedTraces == UNION {Traces(n) : n \in 0..MaxTraceSteps}

InitBacktrace ==
    /\ nfa = [num_states |-> NumStates,
              is_final |-> [k \in 1..NumStates |-> TRUE],
              rules |-> [k \in 1..NumStates |-> <<>>]]
    /\ \E p \in WellFormedTraces :
        /\ path = [i \in Procs |-> IF i = 1 THEN p ELSE <<>>]
        /\ text = [i \in Procs |-> IF i = 1 THEN p[0][2] ELSE <<>>]
    /\ stack = [i \in Procs |-> <<>>]
    /\ visited = [i \in Procs |-> {}]
    /\ pc = [i \in Procs |-> IF i = 1 THEN "backtrace" ELSE "idle"]
    /\ result = [i \in Procs |-> NoResult]
    /\ NoMatchCall

NextBacktrace == Backtrace(1)

BacktraceSpec == InitBacktrace /\ [][NextBacktrace]_vars

\* C15: on a well-formed trace backtrace returns a Path whose states are the
\* trace's states in increasing step order and whose consumes[i] is the empty
\* symbol when the remaining input did not change from step i to step i+1 and
\* otherwise the first character of the remaining input at step i.
C15_BacktraceContract ==
    pc[1] # "backtrace" =>
        /\ ReturnedPath(1)
        /\ result[1].states = [k \in 1..(MaxKey(path[1]) + 1) |-> path[1][k - 1][1]]
        /\ Len(result[1].consumes) = MaxKey(path[1])
        /\ \A k \in 1..MaxKey(path[1]) :
               result[1].consumes[k] =
                   IF path[1][k][2] = path[1][k - 1][2] THEN <<>>
                   ELSE <<path[1][k - 1][2][1]>>

\* backtrace has returned the Path of a trace of three steps, the first an
\* epsilon step and the second a consuming step.
C15_Witness ==
    /\ ReturnedPath(1)
    /\ Len(result[1].consumes) = 3
    /\ result[1].consumes[1] = <<>> /\ result[1].consumes[2] # <<>>

---------------------------------------------------------------------------
(* One invocation on automata built from malformed descriptions. *)

\* from_text checks neither a destination nor a class tag: the rules of an
\* n-state automaton may lead anywhere from -(n+1) to n and carry the class
\* tag x, which match does not know.
UnknownShape == <<SPECIAL, Ord("x"), 0>>

BadRules(n) ==
    {MkRule(d, sh[1], sh[2], sh[3]) :
        d \in (-(n + 1))..n, sh \in {EpsilonShape, LiteralShape, UnknownShape}}

RECURSIVE BadTables(_, _, _)
BadTables(n, k, budget) ==
    IF k = 0 THEN {<<>>}
    ELSE UNION {{<<rs>> \o t : rs \in [1..m -> BadRules(n)],
                               t \in BadTables(n, k - 1, budget - m)}
                : m \in 0..budget}

BadAutomata(n, budget) ==
    {[num_states |-> n, is_final |-> f, rules |-> t] :
        f \in [1..n -> BOOLEAN], t \in BadTables(n, n, budget)}

InitBad ==
    /\ nfa \in BadAutomata(NumStates, MaxBadRules)
    /\ IdleLocals
    /\ NoMatchCall

SpecBad == InitBad /\ [][Next]_vars

\* The state q of an automaton has a class rule of a tag match does not know.
HasUnknownTag(q) ==
    \E k \in DOMAIN ListGet(nfa.rules, q) :
        /\ ListGet(nfa.rules, q)[k].type = SPECIAL
        /\ ListGet(nfa.rules, q)[k].by \notin KnownTags

\* Invocation i pops a frame in this step and expands its state: the state
\* is one the lists hold and the frame is not accepting.
Expands(i) ==
    /\ pc[i] = "loop" /\ stack'[i] # stack[i]
    /\ ~IndexRaises(nfa.num_states, TopFrame(i)[1])
    /\ ~(ListGet(nfa.is_final, TopFrame(i)[1]) /\ TopFrame(i)[2] = <<>>)

\* C16 as stated: whenever the search expands a state that has a class rule
\* of unknown tag, exec aborts with an error.
C16_UnknownTagAlwaysFatal ==
    [][(Expands(1) /\ HasUnknownTag(TopFrame(1)[1])) =>
            pc'[1] = "error" /\ result'[1] = Raised]_vars

\* C16 as amended: whenever the search expands, with remaining input not
\* empty, a state that has a class rule of unknown tag, exec aborts with an
\* error and returns neither a Path nor a rejection.
C16_UnknownTagFatalOnInput ==
    [][(Expands(1) /\ HasUnknownTag(TopFrame(1)[1]) /\ TopFrame(1)[2] # <<>>) =>
            pc'[1] = "error" /\ result'[1] = Raised]_vars

\* exec has aborted on an automaton whose destinations are all states and
\* whose search popped no accepting frame: the error is that of match.
C16_Witness ==
    /\ pc[1] = "error" /\ result[1] = Raised
    /\ \A q \in 1..nfa.num_states : \A k \in DOMAIN nfa.rules[q] :
           nfa.rules[q][k].dst \in 0..(nfa.num_states - 1)
    /\ \A k \in DOMAIN path[1] :
           ~(nfa.is_final[path[1][k][1] + 1] /\ path[1][k][2] = <<>>)

\* C17: a rule whose destination lies outside [0, numStates) is fatal: when
\* the search pops a frame whose state is such a destination, above
\* numStates-1 or negative, exec aborts with an error.
C17_OutOfRangeFatal ==
    [][(pc[1] = "loop" /\ stack'[1] # stack[1]
            /\ TopFrame(1)[1] \notin 0..(nfa.num_states - 1)) =>
            pc'[1] = "error"]_vars

\* The trace entry d is a frame that the expansion of the trace entry c
\* pushes: one rule of c's state leads to d's state, an epsilon rule with
\* the remaining input unchanged, another rule matching and consuming its
\* first character.
PushedBy(c, d) ==
    \E k \in DOMAIN nfa.rules[c[1] + 1] :
        LET rule == nfa.rules[c[1] + 1][k]
        IN  /\ rule.dst = d[1]
            /\ IF rule.type = EPSILON
               THEN d[2] = c[2]
               ELSE c[2] # <<>> /\ Match(rule, Head(c[2])) /\ d[2] = Tail(c[2])

\* The entries at steps 0..k of the trace p form a run prefix on input t.
RunPrefix(p, k, t) ==
    /\ 0..k \subseteq DOMAIN p
    /\ p[0] = <<0, t>>
    /\ \A j \in 1..k : PushedBy(p[j - 1], p[j])

\* C18: whenever exec pops a frame (q, remaining, k) and records it, the
\* entry at step k is (q, remaining) and the trace entries at steps 0..k
\* form a valid run prefix: entry 0 is (0, input) and each entry at j-1 is
\* a configuration whose expansion pushes the frame recorded at j.
C18_TracePrefixIsRun ==
    [][(pc[1] = "loop" /\ stack'[1] # stack[1]) =>
            /\ path'[1][TopFrame(1)[3]] = <<TopFrame(1)[1], TopFrame(1)[2]>>
            /\ RunPrefix(path'[1], TopFrame(1)[3], text[1])]_vars

\* The search has backtracked and overwritten a step: the trace holds an
\* entry, above the overwritten one, that its predecessor does not push.
C18_Witness ==
    /\ pc[1] = "loop"
    /\ \E j \in DOMAIN path[1] :
           j >= 1 /\ ~PushedBy(path[1][j - 1], path[1][j])

---------------------------------------------------------------------------
(* The recursive depth-first traversal that the explicit stack replaces. *)

\* DfsAt visits the configuration (q, rem); DfsRules tries the rules of q
\* from the k-th on, in declaration order, descending into a rule's target
\* before trying the next rule. seen holds the configurations entered
\* through an epsilon rule; an epsilon rule leading to one of them is
\* skipped. The outcome is the run found, or found = FALSE.
RECURSIVE DfsAt(_, _, _), DfsRules(_, _, _, _)
DfsAt(q, rem, seen) ==
    IF nfa.is_final[q + 1] /\ rem = <<>>
    THEN [found |-> TRUE, states |-> <<q>>, consumes |-> <<>>, seen |-> seen]
    ELSE DfsRules(q, 1, rem, seen)

DfsRules(q, k, rem, seen) ==
    IF k > Len(nfa.rules[q + 1])
    THEN [found |-> FALSE, states |-> <<>>, consumes |-> <<>>, seen |-> seen]
    ELSE LET rule == nfa.rules[q + 1][k]
             eps == rule.type = EPSILON
             enters == IF eps THEN <<rule.dst, rem>> \notin seen
                       ELSE rem # <<>> /\ Match(rule, Head(rem))
             below == IF eps
                      THEN DfsAt(rule.dst, rem, seen \cup {<<rule.dst, rem>>})
                      ELSE DfsAt(rule.dst, Tail(rem), seen)
         IN  IF ~enters THEN DfsRules(q, k + 1, rem, seen)
             ELSE IF below.found
             THEN [found |-> TRUE, states |-> <<q>> \o below.states,
                   consumes |-> <<IF eps THEN <<>> ELSE <<Head(rem)>>>>
                                    \o below.consumes,
                   seen |-> below.seen]
             ELSE DfsRules(q, k + 1, rem, below.seen)

\* The outcome of the recursive traversal on input t, as exec reports one.
Dfs(t) ==
    LET r == DfsAt(0, t, {})
    IN  IF r.found THEN PathResult(r.states, r.consumes) ELSE NoneResult

\* C19 as stated: for every automaton and input, exec returns the same
\* outcome, the same Path or rejection, as the recursive traversal.
C19_SameOutcome == Ended(1) => result[1] = Dfs(text[1])

\* C19 as amended: exec returns a rejection exactly when the recursive
\* traversal rejects.
C19_SameVerdict ==
    Ended(1) => (result[1] = NoneResult <=> Dfs(text[1]) = NoneResult)

\* exec has rejected after it skipped configurations entered by epsilon
\* rules, and so has the recursive traversal.
C19_Witness ==
    /\ Returned(1) /\ result[1] = NoneResult
    /\ Cardinality(visited[1]) >= 2
    /\ Dfs(text[1]) = NoneResult

---------------------------------------------------------------------------
(* The first accepting run of an automaton without epsilon rules. *)

NoEpsilonRules ==
    \A q \in 1..nfa.num_states : \A k \in DOMAIN nfa.rules[q] :
        nfa.rules[q][k].type # EPSILON

\* Without epsilon rules: the input rem can be accepted from state q.
RECURSIVE AcceptsFrom(_, _)
AcceptsFrom(q, rem) ==
    IF rem = <<>> THEN nfa.is_final[q + 1]
    ELSE \E k \in DOMAIN nfa.rules[q + 1] :
            /\ Match(nfa.rules[q + 1][k], Head(rem))
            /\ AcceptsFrom(nfa.rules[q + 1][k].dst, Tail(rem))

\* The positions of the rules of q that match the first character of rem
\* and lead to a state from which the rest can be accepted.
GoodRules(q, rem) ==
    {k \in DOMAIN nfa.rules[q + 1] :
        /\ Match(nfa.rules[q + 1][k], Head(rem))
        /\ AcceptsFrom(nfa.rules[q + 1][k].dst, Tail(rem))}

Earliest(S) == CHOOSE k \in S : \A j \in S : k <= j

\* The states of the accepting run from (q, rem) that takes, at each step,
\* the earliest-declared good rule; defined when AcceptsFrom(q, rem).
RECURSIVE LexFirstStates(_, _)
LexFirstStates(q, rem) ==
    IF rem = <<>> THEN <<q>>
    ELSE <<q>> \o LexFirstStates(
                    nfa.rules[q + 1][Earliest(GoodRules(q, rem))].dst, Tail(rem))

\* C20: for an automaton with no epsilon rules, the Path exec returns is
\* the accepting run that is first by rule declaration position: at each
\* step it takes the earliest-declared matching rule from which the rest of
\* the input can still be accepted, and consumes one character per step.
C20_FirstRunByDeclaration ==
    (NoEpsilonRules /\ ReturnedPath(1)) =>
        /\ AcceptsFrom(0, text[1])
        /\ result[1].states = LexFirstStates(0, text[1])
        /\ result[1].consumes = [j \in 1..Len(text[1]) |-> <<text[1][j]>>]

\* exec has returned a Path on an automaton without epsilon rules where the
\* choice matters: two rules of state 0 match the first character, and the
\* first of them leads to a state from which the rest cannot be accepted.
C20_Witness ==
    /\ NoEpsilonRules /\ ReturnedPath(1) /\ text[1] # <<>>
    /\ Len(nfa.rules[1]) >= 2
    /\ Match(nfa.rules[1][1], Head(text[1]))
    /\ ~AcceptsFrom(nfa.rules[1][1].dst, Tail(text[1]))
    /\ Earliest(GoodRules(0, text[1])) < Len(nfa.rules[1])

====
